---- MODULE Spec2Model ----
(***************************************************************************)
(* The streaming session controller of the art coach application (the App  *)
(* component): session lifecycle (startSession / stopSession and the        *)
(* channel callbacks onopen, onmessage, onerror, onclose) and the playback  *)
(* scheduling of inbound audio buffers on the output audio clock.           *)
(*                                                                          *)
(* All handlers run on one event loop, so every handler is one atomic       *)
(* action up to its next await.  startSession suspends at getUserMedia and  *)
(* at the connect promise; onmessage suspends at decodeAudioData.           *)
(***************************************************************************)
EXTENDS Integers, FiniteSets, Sequences, TLC

\* Bounds of the exploration.
MaxSessions == 2      \* start requests explored
MaxMsgs     == 2      \* inbound messages explored
MaxTime     == 2      \* ticks of the output clock explored
MaxDur      == 2      \* longest decoded buffer, in clock ticks
MaxAppends  == 17     \* transcript entries appended

Null     == 0
Sessions == 1..MaxSessions
Msgs     == 1..MaxMsgs

\* Math.max
Max(a, b) == IF a >= b THEN a ELSE b

VARIABLES
  isActive,          \* useState isActive
  isConnecting,      \* useState isConnecting
  sessionRef,        \* sessionRef.current: Null or the session of a channel
  frameIntervalRef,  \* frameIntervalRef.current: Null or a timer id
  sourcesRef,        \* sourcesRef.current: set of buffer source nodes
  nextStartTimeRef,  \* nextStartTimeRef.current: the playback cursor
  audioCtx,          \* audioContextRef.current has been created
  now,               \* outputCtx.currentTime
  pc,                \* position of each startSession call
  nStart,            \* number of startSession calls so far
  chan,              \* state of the remote channel of each startSession call
  wasOpen,           \* channels whose onopen has fired
  streams,           \* microphone streams acquired and not released
  pumps,             \* script processors connected and not disconnected
  timers,            \* interval timers armed (window.setInterval)
  node,              \* every buffer source node created: state, start, duration
  inflight,          \* onmessage calls suspended in decodeAudioData
  nMsg,              \* number of audio messages received so far
  log,               \* last console.error, "none" if none yet
  ev,                \* history: the last handler that ran
  pre,               \* history: controller state before that handler
  eff,               \* history: what that handler closed, cleared and stopped
  nConnect,          \* history: number of ai.live.connect calls
  last,              \* history: the last scheduled buffer
  gap,               \* history: cursor raised or reset since the last schedule
  intSince,          \* history: interruption handled since the last schedule
  trackingMode,      \* useState trackingMode: "digital" or "physical"
  currentLesson,     \* useState currentLesson: index into LESSONS
  capturedMode,      \* trackingMode as closed over by each startSession call
  cameraReady,       \* the mounted CameraTracker's video has dimensions
  transcriptions,    \* useState transcriptions
  nAppended,         \* history: number of addTranscription calls
  tick,              \* history: the last capture callback (frame or audio)
  dropped,           \* history: messages whose decoding failed
  intMark            \* history: messages received when the last interruption
                     \* was handled

vars == <<isActive, isConnecting, sessionRef, frameIntervalRef, sourcesRef,
          nextStartTimeRef, audioCtx, now, pc, nStart, chan, wasOpen, streams,
          pumps, timers, node, inflight, nMsg, log, ev, pre, eff, nConnect,
          last, gap, intSince, trackingMode, currentLesson, capturedMode,
          cameraReady, transcriptions, nAppended, tick, dropped, intMark>>

\* The state of the visual sources, the transcript and the capture callbacks.
uiVars == <<trackingMode, currentLesson, cameraReady, transcriptions,
            nAppended, tick>>

\* History of the playback handlers.
playAux == <<dropped, intMark>>

\* The controller state that stopSession reads and writes.
Ctl == [session |-> sessionRef, timer |-> frameIntervalRef, live |-> sourcesRef,
        active |-> isActive, connecting |-> isConnecting]

NoPre  == [ctl |-> [session |-> Null, timer |-> Null, live |-> {},
                    active |-> FALSE, connecting |-> FALSE],
           ev |-> "init"]
NoEff  == [closed |-> {}, cleared |-> {}, stopped |-> {}]
NoNode == [st |-> "none", start |-> 0, dur |-> 0]
NoTick == [kind |-> "none", timer |-> Null, src |-> "none", frame |-> "none",
           sent |-> FALSE, err |-> FALSE, to |-> Null, handle |-> Null,
           mode |-> "none", pump |-> Null]
NoLast == [n |-> 0, start |-> 0, dur |-> 0, at |-> 0, cur0 |-> 0, cur1 |-> 0,
           onTime |-> FALSE, chained |-> FALSE, noInt |-> FALSE,
           afterInt |-> FALSE, pstart |-> 0, pdur |-> 0]

Init ==
  /\ isActive = FALSE
  /\ isConnecting = FALSE
  /\ sessionRef = Null
  /\ frameIntervalRef = Null
  /\ sourcesRef = {}
  /\ nextStartTimeRef = 0
  /\ audioCtx = FALSE
  /\ now = 0
  /\ pc = [a \in Sessions |-> "none"]
  /\ nStart = 0
  /\ chan = [a \in Sessions |-> "none"]
  /\ wasOpen = {}
  /\ streams = {}
  /\ pumps = {}
  /\ timers = {}
  /\ node = [i \in Msgs |-> NoNode]
  /\ inflight = {}
  /\ nMsg = 0
  /\ log = "none"
  /\ ev = "init"
  /\ pre = NoPre
  /\ eff = NoEff
  /\ nConnect = 0
  /\ last = NoLast
  /\ gap = FALSE
  /\ intSince = FALSE
  /\ trackingMode = "digital"
  /\ currentLesson = 1
  /\ capturedMode = [a \in Sessions |-> "none"]
  /\ cameraReady = FALSE
  /\ transcriptions = << >>
  /\ nAppended = 0
  /\ tick = NoTick
  /\ dropped = {}
  /\ intMark = 0

\* History kept by a handler that is neither a start nor a teardown.
Other ==
  /\ ev' = "other"
  /\ pre' = NoPre
  /\ eff' = NoEff

(***************************************************************************)
(* stopSession (App, lines 30-42), as a function of the controller state:  *)
(* the state it leaves, the session it calls close() on, the timer it      *)
(* clears and the buffer sources it calls stop() on.                       *)
(***************************************************************************)
stopSession_keepHandle(s) ==
  [ctl     |-> [s EXCEPT !.timer = Null, !.live = {}, !.active = FALSE],
   closed  |-> IF s.session # Null THEN {s.session} ELSE {},
   cleared |-> IF s.timer # Null THEN {s.timer} ELSE {},
   stopped |-> s.live]

stopSession(s) ==
  [ctl     |-> [s EXCEPT !.session = Null, !.timer = Null, !.live = {},
                         !.active = FALSE],
   closed  |-> IF s.session # Null THEN {s.session} ELSE {},
   cleared |-> IF s.timer # Null THEN {s.timer} ELSE {},
   stopped |-> s.live]

\* session.close() on the channels in cs: an open or connecting channel starts
\* closing, and its close event is delivered later; others are unaffected.
CloseChannels(ch, cs) ==
  [c \in Sessions |->
     IF c \in cs /\ ch[c] \in {"connecting", "open"} THEN "closing" ELSE ch[c]]

\* source.stop() on the nodes in ns.
StopNodes(nd, ns) ==
  [i \in Msgs |->
     IF i \in ns /\ nd[i].st = "playing" THEN [NoNode EXCEPT !.st = "stopped"]
     ELSE nd[i]]

\* A handler that calls stopSession(): ch is the channel state the handler has
\* observed so far, e the handler's name.
Teardown(ch, e) ==
  LET r == stopSession(Ctl) IN
  /\ sessionRef' = r.ctl.session
  /\ frameIntervalRef' = r.ctl.timer
  /\ sourcesRef' = r.ctl.live
  /\ isActive' = r.ctl.active
  /\ isConnecting' = r.ctl.connecting
  /\ chan' = CloseChannels(ch, r.closed)
  /\ timers' = timers \ r.cleared
  /\ node' = StopNodes(node, r.stopped)
  /\ ev' = e
  /\ pre' = [ctl |-> Ctl, ev |-> ev]
  /\ eff' = [closed |-> r.closed, cleared |-> r.cleared, stopped |-> r.stopped]

\* The Start/Stop button (lines 189-192): disabled while connecting; its click
\* runs stopSession when isActive and startSession otherwise.
ButtonStarts_ignoreActive == ~isConnecting

ButtonStarts == ~isConnecting /\ ~isActive

ButtonStops == ~isConnecting /\ isActive

\* Click on the button while it shows Stop: stopSession (lines 30-42).
UserStop ==
  /\ ButtonStops
  /\ Teardown(chan, "stop")
  /\ UNCHANGED <<nextStartTimeRef, audioCtx, now, pc, nStart, wasOpen, streams,
                 pumps, inflight, nMsg, log, nConnect, last, gap, intSince>>
  /\ UNCHANGED <<uiVars, capturedMode, playAux>>

\* Click on the button while it shows Start: startSession up to its first
\* await, getUserMedia (lines 44-57).
StartClick ==
  /\ ButtonStarts
  /\ nStart < MaxSessions
  /\ isConnecting' = TRUE
  /\ audioCtx' = TRUE
  /\ nStart' = nStart + 1
  /\ pc' = [pc EXCEPT ![nStart + 1] = "awaitMic"]
  /\ ev' = "start"
  /\ pre' = [ctl |-> Ctl, ev |-> ev]
  /\ eff' = NoEff
  /\ UNCHANGED <<isActive, sessionRef, frameIntervalRef, sourcesRef,
                 nextStartTimeRef, now, chan, wasOpen, streams, pumps, timers,
                 node, inflight, nMsg, log, nConnect, last, gap, intSince>>
  /\ capturedMode' = [capturedMode EXCEPT ![nStart + 1] = trackingMode]
  /\ UNCHANGED <<uiVars, playAux>>

\* getUserMedia resolves: startSession calls ai.live.connect and suspends on
\* its promise (lines 57-137).
MicGranted(a) ==
  /\ pc[a] = "awaitMic"
  /\ streams' = streams \cup {a}
  /\ chan' = [chan EXCEPT ![a] = "connecting"]
  /\ nConnect' = nConnect + 1
  /\ pc' = [pc EXCEPT ![a] = "awaitConnect"]
  /\ Other
  /\ UNCHANGED <<isActive, isConnecting, sessionRef, frameIntervalRef,
                 sourcesRef, nextStartTimeRef, audioCtx, now, nStart, wasOpen,
                 pumps, timers, node, inflight, nMsg, log, last, gap, intSince>>
  /\ UNCHANGED <<uiVars, capturedMode, playAux>>

\* getUserMedia rejects: the catch block (lines 138-141).
MicDenied_stillConnecting(a) ==
  /\ pc[a] = "awaitMic"
  /\ pc' = [pc EXCEPT ![a] = "denied"]
  /\ log' = "Failed to start session"
  /\ ev' = "micDenied"
  /\ pre' = NoPre
  /\ eff' = NoEff
  /\ UNCHANGED <<isActive, isConnecting, sessionRef, frameIntervalRef,
                 sourcesRef, nextStartTimeRef, audioCtx, now, nStart, chan,
                 wasOpen, streams, pumps, timers, node, inflight, nMsg,
                 nConnect, last, gap, intSince>>
  /\ UNCHANGED <<uiVars, capturedMode, playAux>>

MicDenied(a) ==
  /\ pc[a] = "awaitMic"
  /\ pc' = [pc EXCEPT ![a] = "denied"]
  /\ log' = "Failed to start session"
  /\ isConnecting' = FALSE
  /\ ev' = "micDenied"
  /\ pre' = NoPre
  /\ eff' = NoEff
  /\ UNCHANGED <<isActive, sessionRef, frameIntervalRef, sourcesRef,
                 nextStartTimeRef, audioCtx, now, nStart, chan, wasOpen,
                 streams, pumps, timers, node, inflight, nMsg, nConnect, last,
                 gap, intSince>>
  /\ UNCHANGED <<uiVars, capturedMode, playAux>>

\* The channel opens: the onopen callback (lines 74-99) connects the audio
\* pump to the microphone stream and arms the frame sampler timer.
RemoteOpen(c) ==
  /\ chan[c] = "connecting"
  /\ chan' = [chan EXCEPT ![c] = "open"]
  /\ wasOpen' = wasOpen \cup {c}
  /\ isConnecting' = FALSE
  /\ isActive' = TRUE
  /\ pumps' = pumps \cup {c}
  /\ timers' = timers \cup {c}
  /\ frameIntervalRef' = c
  /\ Other
  /\ UNCHANGED <<sessionRef, sourcesRef, nextStartTimeRef, audioCtx, now, pc,
                 nStart, streams, node, inflight, nMsg, log, nConnect, last,
                 gap, intSince>>
  /\ UNCHANGED <<uiVars, capturedMode, playAux>>

\* The connect promise resolves, after the channel has opened: startSession
\* stores the session (line 137).
ConnectResolve(a) ==
  /\ pc[a] = "awaitConnect"
  /\ a \in wasOpen
  /\ sessionRef' = a
  /\ pc' = [pc EXCEPT ![a] = "resolved"]
  /\ Other
  /\ UNCHANGED <<isActive, isConnecting, frameIntervalRef, sourcesRef,
                 nextStartTimeRef, audioCtx, now, nStart, chan, wasOpen,
                 streams, pumps, timers, node, inflight, nMsg, log, nConnect,
                 last, gap, intSince>>
  /\ UNCHANGED <<uiVars, capturedMode, playAux>>

\* The connect promise rejects, the channel never having opened: the catch
\* block (lines 138-141).
ConnectReject(a) ==
  /\ pc[a] = "awaitConnect"
  /\ a \notin wasOpen
  /\ pc' = [pc EXCEPT ![a] = "rejected"]
  /\ chan' = [chan EXCEPT ![a] = IF @ = "connecting" THEN "closed" ELSE @]
  /\ log' = "Failed to start session"
  /\ isConnecting' = FALSE
  /\ Other
  /\ UNCHANGED <<isActive, sessionRef, frameIntervalRef, sourcesRef,
                 nextStartTimeRef, audioCtx, now, nStart, wasOpen, streams,
                 pumps, timers, node, inflight, nMsg, nConnect, last, gap,
                 intSince>>
  /\ UNCHANGED <<uiVars, capturedMode, playAux>>

\* The channel reports an error: the onerror callback (lines 127-130).  The
\* failed channel delivers its close event later.
onerror_logOnly(c) ==
  /\ chan[c] \in {"connecting", "open"}
  /\ chan' = [chan EXCEPT ![c] = "closing"]
  /\ log' = "Session error"
  /\ ev' = "onerror"
  /\ pre' = [ctl |-> Ctl, ev |-> ev]
  /\ eff' = NoEff
  /\ UNCHANGED <<isActive, isConnecting, sessionRef, frameIntervalRef,
                 sourcesRef, nextStartTimeRef, audioCtx, now, pc, nStart,
                 wasOpen, streams, pumps, timers, node, inflight, nMsg,
                 nConnect, last, gap, intSince>>
  /\ UNCHANGED <<uiVars, capturedMode, playAux>>

onerror(c) ==
  /\ chan[c] \in {"connecting", "open"}
  /\ log' = "Session error"
  /\ Teardown([chan EXCEPT ![c] = "closing"], "onerror")
  /\ UNCHANGED <<nextStartTimeRef, audioCtx, now, pc, nStart, wasOpen, streams,
                 pumps, inflight, nMsg, nConnect, last, gap, intSince>>
  /\ UNCHANGED <<uiVars, capturedMode, playAux>>

\* The channel closes (remotely, after an error, or after a local close()):
\* the onclose callback (lines 131-133).
onclose_reconnect(c) ==
  /\ chan[c] \in {"connecting", "open", "closing"}
  /\ Teardown([chan EXCEPT ![c] = "connecting"], "onclose")
  /\ nConnect' = nConnect + 1
  /\ UNCHANGED <<nextStartTimeRef, audioCtx, now, pc, nStart, wasOpen, streams,
                 pumps, inflight, nMsg, log, last, gap, intSince>>
  /\ UNCHANGED <<uiVars, capturedMode, playAux>>

onclose(c) ==
  /\ chan[c] \in {"connecting", "open", "closing"}
  /\ Teardown([chan EXCEPT ![c] = "closed"], "onclose")
  /\ UNCHANGED <<nextStartTimeRef, audioCtx, now, pc, nStart, wasOpen, streams,
                 pumps, inflight, nMsg, log, nConnect, last, gap, intSince>>
  /\ UNCHANGED <<uiVars, capturedMode, playAux>>


(***************************************************************************)
(* Playback scheduling: the onmessage callback (lines 100-126).            *)
(***************************************************************************)

\* Line 110: the cursor is raised to the output clock before decoding.
raiseCursor(cursor, t) == Max(cursor, t)

\* Lines 112-118, with cursor the value of nextStartTimeRef and t the output
\* clock when the handler resumes: source.start(cursor) starts the buffer at
\* cursor, or at once when cursor is already past; the cursor advances by the
\* buffer's duration.
enqueue_noAdvance(cursor, t, d) ==
  [start |-> Max(cursor, t), cursor |-> cursor]

enqueue(cursor, t, d) ==
  [start |-> Max(cursor, t), cursor |-> cursor + d]

\* Lines 121-125: every tracked source is stopped, the set cleared and the
\* cursor reset.
interrupted_keepCursor(live, cursor) ==
  [stopped |-> live, live |-> {}, cursor |-> cursor]

interrupted(live, cursor) ==
  [stopped |-> live, live |-> {}, cursor |-> 0]

\* A message with an audio payload of duration d arrives on an open channel:
\* onmessage up to its await of decodeAudioData (lines 100-111).  i tells
\* whether the message also carries the interrupted flag, which the handler
\* reads after the await.
MessageAudio(c, d, i) ==
  /\ chan[c] = "open"
  /\ nMsg < MaxMsgs
  /\ nMsg' = nMsg + 1
  /\ nextStartTimeRef' = raiseCursor(nextStartTimeRef, now)
  /\ inflight' = inflight \cup {[id |-> nMsg + 1, dur |-> d, interrupted |-> i]}
  /\ gap' = (gap \/ now > nextStartTimeRef)
  /\ Other
  /\ UNCHANGED <<isActive, isConnecting, sessionRef, frameIntervalRef,
                 sourcesRef, audioCtx, now, pc, nStart, chan, wasOpen, streams,
                 pumps, timers, node, log, nConnect, last, intSince>>
  /\ UNCHANGED <<uiVars, capturedMode, playAux>>

\* A message without audio payload and with the interrupted flag arrives:
\* onmessage runs to its end (lines 100-126).
MessageInterrupt(c) ==
  /\ chan[c] = "open"
  /\ LET r == interrupted(sourcesRef, nextStartTimeRef) IN
       /\ node' = StopNodes(node, r.stopped)
       /\ sourcesRef' = r.live
       /\ nextStartTimeRef' = r.cursor
       /\ eff' = [NoEff EXCEPT !.stopped = r.stopped]
  /\ gap' = TRUE
  /\ intSince' = TRUE
  /\ intMark' = nMsg
  /\ ev' = "interrupted"
  /\ pre' = [ctl |-> Ctl, ev |-> ev]
  /\ UNCHANGED <<isActive, isConnecting, sessionRef, frameIntervalRef,
                 audioCtx, now, pc, nStart, chan, wasOpen, streams, pumps,
                 timers, inflight, nMsg, log, nConnect, last>>
  /\ UNCHANGED <<uiVars, capturedMode, dropped>>

\* decodeAudioData (services/audioUtils) settles the promise that the
\* suspended handler h awaits: any suspended handler may be the next to
\* resume, however long the others have been waiting.
DecodeSettles(h) == h \in inflight

\* decodeAudioData resolves for the suspended handler h: the rest of
\* onmessage (lines 112-126).
Decoded(h) ==
  /\ DecodeSettles(h)
  /\ inflight' = inflight \ {h}
  /\ LET e   == enqueue(nextStartTimeRef, now, h.dur)
         nd  == [node EXCEPT ![h.id] =
                   [st |-> "playing", start |-> e.start, dur |-> h.dur]]
         r   == interrupted(sourcesRef \cup {h.id}, e.cursor)
         onT == nextStartTimeRef >= now
     IN
       /\ IF h.interrupted
          THEN /\ node' = StopNodes(nd, r.stopped)
               /\ sourcesRef' = r.live
               /\ nextStartTimeRef' = r.cursor
               /\ intMark' = h.id
               /\ ev' = "interrupted"
               /\ pre' = [ctl |-> Ctl, ev |-> ev]
               /\ eff' = [NoEff EXCEPT !.stopped = r.stopped]
          ELSE /\ node' = nd
               /\ sourcesRef' = sourcesRef \cup {h.id}
               /\ nextStartTimeRef' = e.cursor
               /\ intMark' = intMark
               /\ Other
       /\ last' = [n |-> 1, start |-> e.start, dur |-> h.dur, at |-> now,
                   cur0 |-> nextStartTimeRef, cur1 |-> e.cursor, onTime |-> onT,
                   chained |-> (last.n > 0 /\ ~gap /\ last.onTime /\ onT),
                   noInt |-> (last.n > 0 /\ ~intSince),
                   afterInt |-> intSince,
                   pstart |-> last.start, pdur |-> last.dur]
  /\ gap' = h.interrupted
  /\ intSince' = h.interrupted
  /\ UNCHANGED <<isActive, isConnecting, sessionRef, frameIntervalRef,
                 audioCtx, now, pc, nStart, chan, wasOpen, streams, pumps,
                 timers, nMsg, log, nConnect>>
  /\ UNCHANGED <<uiVars, capturedMode, dropped>>

\* decodeAudioData rejects (or decode throws) for the suspended handler h:
\* the exception leaves onmessage at line 111, so the rest of the handler,
\* the interrupted check included, does not run.
DecodeFailed_stopsSession(h) ==
  /\ DecodeSettles(h)
  /\ inflight' = inflight \ {h}
  /\ dropped' = dropped \cup {h.id}
  /\ Teardown(chan, "decodeFailed")
  /\ UNCHANGED <<nextStartTimeRef, audioCtx, now, pc, nStart, wasOpen, streams,
                 pumps, nMsg, log, nConnect, last, gap, intSince>>
  /\ UNCHANGED <<uiVars, capturedMode, intMark>>

DecodeFailed(h) ==
  /\ DecodeSettles(h)
  /\ inflight' = inflight \ {h}
  /\ dropped' = dropped \cup {h.id}
  /\ ev' = "decodeFailed"
  /\ pre' = [ctl |-> Ctl, ev |-> ev]
  /\ eff' = NoEff
  /\ UNCHANGED <<isActive, isConnecting, sessionRef, frameIntervalRef,
                 sourcesRef, nextStartTimeRef, audioCtx, now, pc, nStart, chan,
                 wasOpen, streams, pumps, timers, node, nMsg, log, nConnect,
                 last, gap, intSince>>
  /\ UNCHANGED <<uiVars, capturedMode, intMark>>

\* A source plays to its end: its 'ended' listener (line 115).
Ended_noDelete(i) ==
  /\ node[i].st = "playing"
  /\ now >= node[i].start + node[i].dur
  /\ node' = [node EXCEPT ![i] = [NoNode EXCEPT !.st = "ended"]]
  /\ Other
  /\ UNCHANGED <<isActive, isConnecting, sessionRef, frameIntervalRef,
                 sourcesRef, nextStartTimeRef, audioCtx, now, pc, nStart, chan,
                 wasOpen, streams, pumps, timers, inflight, nMsg, log, nConnect,
                 last, gap, intSince>>
  /\ UNCHANGED <<uiVars, capturedMode, playAux>>

Ended(i) ==
  /\ node[i].st = "playing"
  /\ now >= node[i].start + node[i].dur
  /\ node' = [node EXCEPT ![i] = [NoNode EXCEPT !.st = "ended"]]
  /\ sourcesRef' = sourcesRef \ {i}
  /\ Other
  /\ UNCHANGED <<isActive, isConnecting, sessionRef, frameIntervalRef,
                 nextStartTimeRef, audioCtx, now, pc, nStart, chan, wasOpen,
                 streams, pumps, timers, inflight, nMsg, log, nConnect, last,
                 gap, intSince>>
  /\ UNCHANGED <<uiVars, capturedMode, playAux>>

\* The output clock advances (outputCtx.currentTime).
Tick ==
  /\ audioCtx
  /\ now < MaxTime
  /\ now' = now + 1
  /\ Other
  /\ UNCHANGED <<isActive, isConnecting, sessionRef, frameIntervalRef,
                 sourcesRef, nextStartTimeRef, audioCtx, pc, nStart, chan,
                 wasOpen, streams, pumps, timers, node, inflight, nMsg, log,
                 nConnect, last, gap, intSince>>
  /\ UNCHANGED <<uiVars, capturedMode, playAux>>

\* Line 27: the new item is appended and the last TranscriptWindow items kept.
TranscriptWindow == 15

Min(a, b) == IF a <= b THEN a ELSE b

addTranscription_keepOldest(prev, item) ==
  LET s == Append(prev, item) IN SubSeq(s, 1, Min(Len(s), TranscriptWindow))

addTranscription(prev, item) ==
  LET s == Append(prev, item)
  IN  SubSeq(s, Max(1, Len(s) - TranscriptWindow + 1), Len(s))

\* The item appended as the n-th one; n stands for its text and timestamp.
Item(n, type) == [n |-> n, type |-> type]

\* A message with transcriptions arrives on an open channel (lines 101-106):
\* u tells whether it carries an input transcription, a whether it carries an
\* output transcription; the input one is appended first.  The message carries
\* no audio and no interrupted flag, and the audio messages of the other
\* actions carry no transcription.
MessageText(c, u, a) ==
  /\ chan[c] = "open"
  /\ u \/ a
  /\ nAppended + (IF u THEN 1 ELSE 0) + (IF a THEN 1 ELSE 0) <= MaxAppends
  /\ LET n1 == IF u THEN nAppended + 1 ELSE nAppended
         t1 == IF u THEN addTranscription(transcriptions, Item(n1, "user"))
                    ELSE transcriptions
         n2 == IF a THEN n1 + 1 ELSE n1
         t2 == IF a THEN addTranscription(t1, Item(n2, "ai")) ELSE t1
     IN  /\ transcriptions' = t2
         /\ nAppended' = n2
  /\ Other
  /\ UNCHANGED <<isActive, isConnecting, sessionRef, frameIntervalRef,
                 sourcesRef, nextStartTimeRef, audioCtx, now, pc, nStart, chan,
                 wasOpen, streams, pumps, timers, node, inflight, nMsg, log,
                 nConnect, last, gap, intSince>>
  /\ UNCHANGED <<trackingMode, currentLesson, cameraReady, tick, capturedMode,
                 playAux>>

\* The lessons of the library (constants.ts, LESSONS).
NumLessons == 4

Lessons == 1..NumLessons

Modes == {"digital", "physical"}

\* Click on a lesson of the library (lines 172-176): setCurrentLesson only.
LessonClick(l) ==
  /\ currentLesson' = l
  /\ ev' = "lesson"
  /\ pre' = [ctl |-> Ctl, ev |-> ev]
  /\ eff' = NoEff
  /\ UNCHANGED <<isActive, isConnecting, sessionRef, frameIntervalRef,
                 sourcesRef, nextStartTimeRef, audioCtx, now, pc, nStart, chan,
                 wasOpen, streams, pumps, timers, node, inflight, nMsg, log,
                 nConnect, last, gap, intSince>>
  /\ UNCHANGED <<trackingMode, cameraReady, transcriptions, nAppended, tick,
                 capturedMode, playAux>>

\* Click on a tracking mode button (lines 268-283): stopSession when isActive,
\* then setTrackingMode.  A change of mode unmounts one visual source and
\* mounts the other (lines 287-292); a camera just mounted has no video yet.
ModeClick(m) ==
  /\ IF isActive
     THEN Teardown(chan, "mode")
     ELSE /\ ev' = "mode"
          /\ pre' = [ctl |-> Ctl, ev |-> ev]
          /\ eff' = NoEff
          /\ UNCHANGED <<isActive, isConnecting, sessionRef, frameIntervalRef,
                         sourcesRef, chan, timers, node>>
  /\ trackingMode' = m
  /\ cameraReady' = IF m = trackingMode THEN cameraReady ELSE FALSE
  /\ UNCHANGED <<nextStartTimeRef, audioCtx, now, pc, nStart, wasOpen, streams,
                 pumps, inflight, nMsg, log, nConnect, last, gap, intSince>>
  /\ UNCHANGED <<currentLesson, transcriptions, nAppended, tick, capturedMode,
                 playAux>>

\* The mounted camera starts to deliver video (CameraTracker, lines 12-25).
CameraReady ==
  /\ trackingMode = "physical"
  /\ ~cameraReady
  /\ cameraReady' = TRUE
  /\ Other
  /\ UNCHANGED <<isActive, isConnecting, sessionRef, frameIntervalRef,
                 sourcesRef, nextStartTimeRef, audioCtx, now, pc, nStart, chan,
                 wasOpen, streams, pumps, timers, node, inflight, nMsg, log,
                 nConnect, last, gap, intSince>>
  /\ UNCHANGED <<trackingMode, currentLesson, transcriptions, nAppended, tick,
                 capturedMode, playAux>>

\* The visual source a callback created in mode m reads (lines 89-91).
SourceOf(m) == IF m = "digital" THEN "canvas" ELSE "camera"

\* ref.current?.getFrame() of the source src while the mode is mode (App lines
\* 89-91, DrawingCanvas lines 54-59, CameraTracker lines 33-52): undefined
\* when the source is not mounted; the camera without video has a canvas of
\* width 0, whose data URL has an empty payload.
getFrame(src, mode, ready) ==
  IF src # SourceOf(mode) THEN "undefined"
  ELSE IF src = "canvas" THEN "data"
  ELSE IF ready THEN "data" ELSE "empty"

\* Line 93: if (frame).
hasFrame_always(frame) == TRUE

hasFrame(frame) == frame = "data"

NotSent == [sent |-> FALSE, err |-> FALSE]

\* sessionRef.current?.sendRealtimeInput(...) (lines 83, 94): the outcomes of
\* the call.  Without a handle nothing is called; on a handle whose channel is
\* no longer open the library may drop the data or throw.
sendRealtimeInput_noGuard(handle, ch) ==
  IF handle = Null THEN {[sent |-> FALSE, err |-> TRUE]}
  ELSE IF ch[handle] = "open" THEN {[sent |-> TRUE, err |-> FALSE]}
  ELSE {NotSent, [sent |-> FALSE, err |-> TRUE]}

sendRealtimeInput(handle, ch) ==
  IF handle = Null THEN {NotSent}
  ELSE IF ch[handle] = "open" THEN {[sent |-> TRUE, err |-> FALSE]}
  ELSE {NotSent, [sent |-> FALSE, err |-> TRUE]}

\* The callback of the armed frame sampler timer t fires (lines 88-98); the
\* tracking mode it tests is the one its startSession call saw.
FrameTick(t) ==
  /\ t \in timers
  /\ LET src   == SourceOf(capturedMode[t])
         frame == getFrame(src, trackingMode, cameraReady)
     IN  \E o \in (IF hasFrame(frame) THEN sendRealtimeInput(sessionRef, chan)
                   ELSE {NotSent}) :
            tick' = [kind |-> "frame", timer |-> t, src |-> src,
                     frame |-> frame, sent |-> o.sent, err |-> o.err,
                     to |-> IF o.sent THEN sessionRef ELSE Null,
                     handle |-> sessionRef, mode |-> trackingMode,
                     pump |-> Null]
  /\ ev' = "frameTick"
  /\ pre' = [ctl |-> Ctl, ev |-> ev]
  /\ eff' = NoEff
  /\ UNCHANGED <<isActive, isConnecting, sessionRef, frameIntervalRef,
                 sourcesRef, nextStartTimeRef, audioCtx, now, pc, nStart, chan,
                 wasOpen, streams, pumps, timers, node, inflight, nMsg, log,
                 nConnect, last, gap, intSince>>
  /\ UNCHANGED <<trackingMode, currentLesson, cameraReady, transcriptions,
                 nAppended, capturedMode, playAux>>

\* The connected script processor p delivers a block of microphone samples:
\* onaudioprocess (lines 80-84).
AudioProcess(p) ==
  /\ p \in pumps
  /\ \E o \in sendRealtimeInput(sessionRef, chan) :
        tick' = [kind |-> "audio", timer |-> Null, src |-> "mic",
                 frame |-> "data", sent |-> o.sent, err |-> o.err,
                 to |-> IF o.sent THEN sessionRef ELSE Null,
                 handle |-> sessionRef, mode |-> trackingMode, pump |-> p]
  /\ ev' = "audioProcess"
  /\ pre' = [ctl |-> Ctl, ev |-> ev]
  /\ eff' = NoEff
  /\ UNCHANGED <<isActive, isConnecting, sessionRef, frameIntervalRef,
                 sourcesRef, nextStartTimeRef, audioCtx, now, pc, nStart, chan,
                 wasOpen, streams, pumps, timers, node, inflight, nMsg, log,
                 nConnect, last, gap, intSince>>
  /\ UNCHANGED <<trackingMode, currentLesson, cameraReady, transcriptions,
                 nAppended, capturedMode, playAux>>

\* The session lifecycle: every start, stop and channel callback.  Audio
\* messages arrive and are decoded at one instant of the output clock, all of
\* one duration and without the interrupted flag; NextPlayback explores the
\* durations, the flag and the clock.
Next ==
  \/ StartClick
  \/ UserStop
  \/ \E a \in Sessions : MicGranted(a)
  \/ \E a \in Sessions : MicDenied(a)
  \/ \E c \in Sessions : RemoteOpen(c)
  \/ \E a \in Sessions : ConnectResolve(a)
  \/ \E a \in Sessions : ConnectReject(a)
  \/ \E c \in Sessions : onerror(c)
  \/ \E c \in Sessions : onclose(c)
  \/ \E c \in Sessions : MessageAudio(c, MaxDur, FALSE)
  \/ \E h \in inflight : Decoded(h)

Spec == Init /\ [][Next]_vars

\* Playback within one session: the state after the first session has become
\* Active and its connect promise has resolved.
InitPlayback ==
  /\ isActive = TRUE
  /\ isConnecting = FALSE
  /\ sessionRef = 1
  /\ frameIntervalRef = 1
  /\ sourcesRef = {}
  /\ nextStartTimeRef = 0
  /\ audioCtx = TRUE
  /\ now = 0
  /\ pc = [a \in Sessions |-> IF a = 1 THEN "resolved" ELSE "none"]
  /\ nStart = 1
  /\ chan = [a \in Sessions |-> IF a = 1 THEN "open" ELSE "none"]
  /\ wasOpen = {1}
  /\ streams = {1}
  /\ pumps = {1}
  /\ timers = {1}
  /\ node = [i \in Msgs |-> NoNode]
  /\ inflight = {}
  /\ nMsg = 0
  /\ log = "none"
  /\ ev = "other"
  /\ pre = NoPre
  /\ eff = NoEff
  /\ nConnect = 1
  /\ last = NoLast
  /\ gap = FALSE
  /\ intSince = FALSE
  /\ trackingMode = "digital"
  /\ currentLesson = 1
  /\ capturedMode = [a \in Sessions |-> IF a = 1 THEN "digital" ELSE "none"]
  /\ cameraReady = FALSE
  /\ transcriptions = << >>
  /\ nAppended = 0
  /\ tick = NoTick
  /\ dropped = {}
  /\ intMark = 0

NextPlayback ==
  \/ \E c \in Sessions, d \in 1..MaxDur, i \in BOOLEAN : MessageAudio(c, d, i)
  \/ \E c \in Sessions : MessageInterrupt(c)
  \/ \E h \in inflight : Decoded(h)
  \/ \E i \in Msgs : Ended(i)
  \/ Tick
  \/ UserStop

SpecPlayback == InitPlayback /\ [][NextPlayback]_vars

\* Playback within one session when decoding may fail.
NextDecode ==
  \/ \E c \in Sessions, d \in 1..MaxDur, i \in BOOLEAN : MessageAudio(c, d, i)
  \/ \E h \in inflight : Decoded(h)
  \/ \E h \in inflight : DecodeFailed(h)
  \/ \E i \in Msgs : Ended(i)
  \/ Tick

SpecDecode == InitPlayback /\ [][NextDecode]_vars

\* The transcript: transcription messages arrive on the channel of an Active
\* session.
NextTranscript ==
  \E c \in Sessions, u \in BOOLEAN, a \in BOOLEAN : MessageText(c, u, a)

SpecTranscript == InitPlayback /\ [][NextTranscript]_vars

\* The lesson library and the tracking mode buttons next to the session
\* lifecycle.
NextSwitch ==
  \/ StartClick
  \/ UserStop
  \/ \E a \in Sessions : MicGranted(a)
  \/ \E c \in Sessions : RemoteOpen(c)
  \/ \E a \in Sessions : ConnectResolve(a)
  \/ \E c \in Sessions : onclose(c)
  \/ \E l \in Lessons : LessonClick(l)
  \/ \E m \in Modes : ModeClick(m)

SpecSwitch == Init /\ [][NextSwitch]_vars

\* The capture callbacks next to the session lifecycle and the tracking mode.
NextCapture ==
  \/ StartClick
  \/ UserStop
  \/ \E a \in Sessions : MicGranted(a)
  \/ \E c \in Sessions : RemoteOpen(c)
  \/ \E a \in Sessions : ConnectResolve(a)
  \/ \E m \in Modes : ModeClick(m)
  \/ CameraReady
  \/ \E t \in Sessions : FrameTick(t)
  \/ \E p \in Sessions : AudioProcess(p)

SpecCapture == Init /\ [][NextCapture]_vars

\* A session after another one: the state after the first session has become
\* Active, has scheduled one buffer of MaxDur ticks at clock 0 and has then
\* been stopped by the user, with that audio still queued ahead of the clock.
InitRestart ==
  /\ isActive = FALSE
  /\ isConnecting = FALSE
  /\ sessionRef = Null
  /\ frameIntervalRef = Null
  /\ sourcesRef = {}
  /\ nextStartTimeRef = MaxDur
  /\ audioCtx = TRUE
  /\ now = 0
  /\ pc = [a \in Sessions |-> IF a = 1 THEN "resolved" ELSE "none"]
  /\ nStart = 1
  /\ chan = [a \in Sessions |-> IF a = 1 THEN "closing" ELSE "none"]
  /\ wasOpen = {1}
  /\ streams = {1}
  /\ pumps = {1}
  /\ timers = {}
  /\ node = [i \in Msgs |->
               IF i = 1 THEN [NoNode EXCEPT !.st = "stopped"] ELSE NoNode]
  /\ inflight = {}
  /\ nMsg = 1
  /\ log = "none"
  /\ ev = "stop"
  /\ pre = [ctl |-> [session |-> 1, timer |-> 1, live |-> {1},
                     active |-> TRUE, connecting |-> FALSE],
            ev |-> "other"]
  /\ eff = [closed |-> {1}, cleared |-> {1}, stopped |-> {1}]
  /\ nConnect = 1
  /\ last = [NoLast EXCEPT !.n = 1, !.dur = MaxDur, !.cur1 = MaxDur,
                           !.onTime = TRUE]
  /\ gap = FALSE
  /\ intSince = FALSE
  /\ trackingMode = "digital"
  /\ currentLesson = 1
  /\ capturedMode = [a \in Sessions |-> IF a = 1 THEN "digital" ELSE "none"]
  /\ cameraReady = FALSE
  /\ transcriptions = << >>
  /\ nAppended = 0
  /\ tick = NoTick
  /\ dropped = {}
  /\ intMark = 0

NextRestart ==
  \/ StartClick
  \/ UserStop
  \/ \E a \in Sessions : MicGranted(a)
  \/ \E c \in Sessions : RemoteOpen(c)
  \/ \E a \in Sessions : ConnectResolve(a)
  \/ \E c \in Sessions, d \in 1..MaxDur : MessageAudio(c, d, FALSE)
  \/ \E h \in inflight : Decoded(h)
  \/ Tick

SpecRestart == InitRestart /\ [][NextRestart]_vars

(***************************************************************************)
(* Properties of the session lifecycle, checked under Spec.                *)
(***************************************************************************)

TeardownEvents == {"stop", "onerror", "onclose"}

Idle == ~isActive /\ ~isConnecting

\* C1: after a teardown of an Active session by user stop, remote error or
\* remote close, the controller is Idle, the session handle is cleared and no
\* channel is left open, the frame sampler timer is cancelled, every tracked
\* buffer is stopped and the live set empty, and the microphone stream and its
\* audio pump are released.
C1_TeardownReleasesAll ==
  (ev \in TeardownEvents /\ pre.ctl.active) =>
     /\ Idle
     /\ sessionRef = Null
     /\ \A c \in Sessions : chan[c] # "open"
     /\ frameIntervalRef = Null
     /\ timers = {}
     /\ sourcesRef = {}
     /\ \A i \in pre.ctl.live : node[i].st # "playing"
     /\ streams = {}
     /\ pumps = {}

\* C2: user stop, remote error and remote close, taken from the same Active
\* state, leave the same controller state: it is a function of the state before
\* alone, whichever of the three triggered the teardown.
C2_TeardownConverges ==
  (ev \in TeardownEvents /\ pre.ctl.active) =>
     Ctl = [session |-> Null, timer |-> Null, live |-> {}, active |-> FALSE,
            connecting |-> pre.ctl.connecting]

C2_Witness ==
  /\ ev = "onerror"
  /\ pre.ctl.active
  /\ pre.ctl.session # Null
  /\ pre.ctl.timer # Null
  /\ pre.ctl.live # {}

\* C3: stopSession is idempotent: run on the state a stopSession has left, it
\* changes nothing, closes no channel, clears no timer and stops no buffer; so
\* a teardown handler that runs right after another one (the close callback
\* fired by the channel that the first one closed included) is a no-op.
C3_StopIdempotent ==
  /\ LET r1 == stopSession(Ctl)
         r2 == stopSession(r1.ctl)
     IN  /\ r2.ctl = r1.ctl
         /\ r2.closed = {}
         /\ r2.cleared = {}
         /\ r2.stopped = {}
  /\ (ev \in TeardownEvents /\ pre.ev \in TeardownEvents) =>
        (Ctl = pre.ctl /\ eff = NoEff)

C3_Witness ==
  /\ ev = "onclose"
  /\ pre.ev = "stop"
  /\ \E c \in Sessions : chan[c] = "closed" /\ pc[c] = "resolved"

C5_AtMostOneLive ==
  /\ Cardinality({c \in Sessions : chan[c] = "open"}) <= 1
  /\ Cardinality(streams) <= 1

\* C6: when getUserMedia fails, the controller ends Idle, the error is logged,
\* and the failed start never opens a channel nor holds a stream.
C6_MicDeniedIdle ==
  /\ ev = "micDenied" => (Idle /\ log = "Failed to start session")
  /\ \A a \in Sessions :
       pc[a] = "denied" => (chan[a] = "none" /\ a \notin streams)

C6_Witness ==
  /\ ev = "micDenied"
  /\ pc[nStart] = "denied"
  /\ nConnect < nStart

\* C7: once the channel of the latest start has errored or closed, the
\* controller is not left Connecting.
C7_FailureLeavesConnecting ==
  (nStart > 0 /\ chan[nStart] \in {"closing", "closed"}) => ~isConnecting

\* C8: no automatic reconnect: connect is called at most once per start
\* request, and a channel is connecting or open only for a start request that
\* is awaiting its connect promise or has had it resolved.
C8_NoAutoReconnect ==
  /\ nConnect <= nStart
  /\ \A c \in Sessions :
       chan[c] \in {"connecting", "open"} => pc[c] \in {"awaitConnect", "resolved"}

C8_Witness ==
  /\ ev = "onclose"
  /\ pre.ctl.active
  /\ nConnect = nStart
  /\ \A c \in Sessions : chan[c] \notin {"connecting", "open"}

(***************************************************************************)
(* Properties of playback scheduling, checked under SpecPlayback.          *)
(***************************************************************************)

\* C9: a buffer starts at max(cursor, output clock) and the cursor then
\* advances by its duration; between two consecutive buffers that both arrive
\* ahead of the clock, with no interruption and no raise of the cursor in
\* between, the second starts exactly where the first ends; without an
\* interruption in between, start times never decrease.
C9_BackToBack ==
  last.n > 0 =>
     /\ last.start = Max(last.cur0, last.at)
     /\ last.cur1 = last.cur0 + last.dur
     /\ last.chained => last.start = last.pstart + last.pdur
     /\ last.noInt => last.start >= last.pstart

C9_Witness ==
  /\ last.n > 0
  /\ last.chained
  /\ last.pdur > 0
  /\ last.start > last.at

\* C10: the first buffer enqueued after an interruption starts at the output
\* clock's current time, not after the interrupted audio.
C10_AfterInterruptNow ==
  (last.n > 0 /\ last.afterInt) => last.start = last.at

C10_Witness ==
  /\ last.n > 0
  /\ last.afterInt
  /\ last.at > 0
  /\ last.pstart + last.pdur > last.at

\* C11: handling the interruption flag stops every buffer of the live set,
\* leaves the set empty and sets the cursor to the output clock's current
\* time.
C11_InterruptResetsToNow ==
  ev = "interrupted" =>
     /\ pre.ctl.live \subseteq eff.stopped
     /\ \A i \in eff.stopped : node[i].st = "stopped"
     /\ sourcesRef = {}
     /\ nextStartTimeRef = now

\* C12: buffers play in the order their messages arrived: of two buffers that
\* are both scheduled, the one that arrived first does not start later.
C12_PlayedInArrivalOrder ==
  \A i \in Msgs, j \in Msgs :
     (i < j /\ node[i].st = "playing" /\ node[j].st = "playing") =>
        node[i].start <= node[j].start

\* C17: the live set is exactly the set of buffers that have been scheduled
\* and have neither ended nor been stopped.
C17_LiveSetExact ==
  sourcesRef = {i \in Msgs : node[i].st = "playing"}

C17_Witness ==
  /\ \E i \in Msgs : node[i].st = "ended"
  /\ \E i \in Msgs : node[i].st = "playing" /\ i \in sourcesRef
  /\ ev = "other"

\* C19: once an interruption has been handled, no buffer of a message that
\* was received before it is playing.
C19_BargeInSilencesEarlier ==
  \A i \in Msgs : i <= intMark => node[i].st # "playing"

(***************************************************************************)
(* Properties of decode failures, checked under SpecDecode.                *)
(***************************************************************************)

\* C15: a decode failure drops the payload and nothing else: the handler
\* changes no controller state (the session stays Active with its handle and
\* its live set), closes no channel, and the dropped payload never becomes a
\* buffer of the live set.
C15_DecodeFailureDropsChunk ==
  /\ ev = "decodeFailed" => (Ctl = pre.ctl /\ eff = NoEff /\ chan[1] = "open")
  /\ \A i \in dropped : node[i].st = "none" /\ i \notin sourcesRef

C15_Witness ==
  /\ 1 \in dropped
  /\ isActive
  /\ chan[1] = "open"
  /\ node[2].st = "playing"
  /\ 2 \in sourcesRef

(***************************************************************************)
(* Properties of the transcript, checked under SpecTranscript.             *)
(***************************************************************************)

\* C13: the transcript never holds more than 15 entries and always equals the
\* last min(n, 15) of the n entries appended so far, in append order.
C13_TranscriptIsLastWindow ==
  /\ Len(transcriptions) <= 15
  /\ Len(transcriptions) = Min(nAppended, 15)
  /\ \A k \in 1..Len(transcriptions) :
        transcriptions[k].n = nAppended - Len(transcriptions) + k

C13_Witness ==
  /\ nAppended > TranscriptWindow + 1
  /\ Len(transcriptions) = 15
  /\ transcriptions[1].n = nAppended - 14
  /\ transcriptions[1].type = "ai"

(***************************************************************************)
(* Properties of the lesson and mode switches, checked under SpecSwitch.   *)
(***************************************************************************)

\* C16: a click on a lesson or on a tracking mode while a session is Active
\* stops it: afterwards the controller is Idle, the handle and the timer are
\* cleared and no channel is open.
C16_SwitchStopsSession ==
  (ev \in {"lesson", "mode"} /\ pre.ctl.active) =>
     /\ Idle
     /\ sessionRef = Null
     /\ frameIntervalRef = Null
     /\ \A c \in Sessions : chan[c] # "open"

(***************************************************************************)
(* Properties of the capture callbacks, checked under SpecCapture.         *)
(***************************************************************************)

\* C14: a frame sampler tick whose visual source has no frame (not mounted, or
\* mounted without video) yields no frame, sends nothing, raises no error,
\* changes no controller state and leaves its timer armed.
C14_NoFrameNoSend ==
  (ev = "frameTick" /\ tick.frame # "data") =>
     /\ ~tick.sent
     /\ tick.to = Null
     /\ ~tick.err
     /\ tick.timer \in timers
     /\ Ctl = pre.ctl

C14_Witness ==
  /\ ev = "frameTick"
  /\ tick.frame = "empty"
  /\ tick.handle # Null
  /\ chan[tick.handle] = "open"
  /\ frameIntervalRef = tick.timer

\* C18: an audio-capture callback or a frame sampler tick that fires while no
\* session handle is present sends nothing, raises no error and leaves the
\* controller state unchanged.
C18_NoHandleNoOp ==
  (ev \in {"frameTick", "audioProcess"} /\ tick.handle = Null) =>
     /\ ~tick.sent
     /\ tick.to = Null
     /\ ~tick.err
     /\ Ctl = pre.ctl

C18_Witness ==
  /\ ev = "frameTick"
  /\ tick.handle = Null
  /\ tick.frame = "data"
  /\ pre.ev = "audioProcess"

\* C20: every frame sampler tick reads the visual source of the current
\* tracking mode.
C20_TickReadsActiveSource ==
  ev = "frameTick" => tick.src = SourceOf(trackingMode)

(***************************************************************************)
(* Properties of a session after another one, checked under Spec and       *)
(* SpecCapture.                                                            *)
(***************************************************************************)

\* C22: while the controller is Idle the live playback set is empty, whether
\* or not a payload was still being decoded when the session was torn down.
C22_IdleIsSilent ==
  Idle => (sourcesRef = {} /\ \A i \in Msgs : node[i].st # "playing")

\* C24: whenever the controller is Idle the stored session handle is null and
\* no frame sampler timer is armed.
C24_IdleHoldsNothing ==
  Idle => (sessionRef = Null /\ frameIntervalRef = Null /\ timers = {})

\* C21: a captured audio block is delivered only by the audio pump of the
\* session whose channel receives it: no pump created by an earlier session
\* sends into a later session's channel.
C21_PumpFeedsOwnSession ==
  (ev = "audioProcess" /\ tick.sent) => tick.pump = tick.to

(***************************************************************************)
(* Properties of the session after a stopped one, checked under            *)
(* SpecRestart.                                                            *)
(***************************************************************************)

\* The buffers that have been scheduled so far.
Scheduled == {i \in Msgs : node[i].st # "none"}

\* C23: the first buffer scheduled in the session that follows a stopped one
\* starts at the output clock's current time, whatever the cursor the stopped
\* session left behind.
C23_NewSessionStartsNow ==
  Cardinality(Scheduled) = 2 => last.start = last.at

====
